---- MODULE Spec2Model ----
(***************************************************************************)
(* Model of the speech-to-sign matcher of src/app.py: the vocabulary       *)
(* table, the local matcher, the remote (Gemini) matcher, media            *)
(* enrichment, the POST /api/match handler, the GET routes and the import  *)
(* of the module.                                                          *)
(*                                                                         *)
(* Strings are sequences of one-character strings.  Confidences are in     *)
(* hundredths (1.0 is 100, 0.85 is 85).                                    *)
(***************************************************************************)
EXTENDS Integers, Sequences, FiniteSets, TLC

VARIABLES SIGN_VOCABULARY, GEMINI_API_KEY, VIDEOS_DIR, request, response,
          trace, call

vars == <<SIGN_VOCABULARY, GEMINI_API_KEY, VIDEOS_DIR, request, response,
          trace, call>>

(***************************************************************************)
(* Bounds                                                                  *)
(***************************************************************************)
\* longest text handed to local_match_signs in SpecLocal
MaxLen == 5
\* longest text of a request body in Spec
MaxReqLen == 3
\* longest JSON array the external service answers with in SpecRemote
MaxItems == 2

(***************************************************************************)
(* Characters and the str methods the code uses                            *)
(***************************************************************************)
Lowercase == {"a", "b", "c"}
Uppercase == {"A"}
Digits == {"1"}
Whitespace == {" "}
\* the four characters line 807 replaces by a space
Separators == {",", ".", "?", "!"}
\* the characters texts are drawn from: ASCII letters of both cases, a
\* digit, a space, one of the separators of line 807 and an apostrophe
Chars == Lowercase \cup Uppercase \cup Digits \cup Whitespace \cup {",", "'"}

Range(s) == {s[i] : i \in 1..Len(s)}

Strings(n) == UNION {[1..k -> Chars] : k \in 0..n}

isalpha(c) == c \in Lowercase \cup Uppercase

isalnum(c) == isalpha(c) \/ c \in Digits

isspace(c) == c \in Whitespace

lower_char(c) == IF c = "A" THEN "a" ELSE c

lower(s) == [i \in 1..Len(s) |-> lower_char(s[i])]

\* text.replace(',', ' ').replace('.', ' ').replace('?', ' ').replace('!', ' ')
replace_separators(s) == [i \in 1..Len(s) |-> IF s[i] \in Separators THEN " " ELSE s[i]]

\* re.sub(r"[^A-Za-z0-9\s]", " ", text)
sub_non_alnum(s) == [i \in 1..Len(s) |-> IF isalnum(s[i]) \/ isspace(s[i]) THEN s[i] ELSE " "]

\* index of the first whitespace character of s, Len(s) + 1 when there is none
RECURSIVE first_space(_, _)
first_space(s, i) ==
    IF i > Len(s) \/ isspace(s[i]) THEN i ELSE first_space(s, i + 1)

\* str.split(): the maximal runs of non-whitespace characters, in order
RECURSIVE split(_)
split(s) ==
    IF s = <<>> THEN <<>>
    ELSE IF isspace(Head(s)) THEN split(Tail(s))
    ELSE LET n == first_space(s, 1)
         IN <<SubSeq(s, 1, n - 1)>> \o split(SubSeq(s, n, Len(s)))

\* str.strip(): s without its leading and trailing whitespace
RECURSIVE strip(_)
strip(s) ==
    IF s = <<>> THEN <<>>
    ELSE IF isspace(Head(s)) THEN strip(Tail(s))
    ELSE IF isspace(s[Len(s)]) THEN strip(SubSeq(s, 1, Len(s) - 1))
    ELSE s

\* p in s, for strings: p occurs as a contiguous substring of s
contains(s, p) ==
    \E i \in 1..(Len(s) - Len(p) + 1) : SubSeq(s, i, i + Len(p) - 1) = p

\* x in list
in_list(x, l) == \E i \in 1..Len(l) : l[i] = x

\* alpha_letters with isalnum in place of isalpha: digits are kept
RECURSIVE alnum_letters(_)
alnum_letters(w) ==
    IF w = <<>> THEN <<>>
    ELSE IF isalnum(Head(w)) THEN <<Head(w)>> \o alnum_letters(Tail(w))
    ELSE alnum_letters(Tail(w))

\* [c for c in word if c.isalpha()]
RECURSIVE alpha_letters(_)
alpha_letters(w) ==
    IF w = <<>> THEN <<>>
    ELSE IF isalpha(Head(w)) THEN <<Head(w)>> \o alpha_letters(Tail(w))
    ELSE alpha_letters(Tail(w))

\* {**d, **e}: the fields of d overridden and extended by those of e
merge(d, e) ==
    [f \in DOMAIN d \cup DOMAIN e |-> IF f \in DOMAIN e THEN e[f] ELSE d[f]]

(***************************************************************************)
(* Confidence values set by the code                                       *)
(***************************************************************************)
CONF_EXACT == 100
CONF_SYNONYM == 85
CONF_FINGERSPELL_LOCAL == 50
CONF_FINGERSPELL_FORCED == 100
CONF_GEMINI_DEFAULT == 80

(***************************************************************************)
(* The vocabulary table.  The model table keeps the shapes of the 119      *)
(* entries of lines 60-798 over the model's alphabet, in declaration       *)
(* order:                                                                  *)
(*   "a"    a one-word key with a one-word synonym ("hello": "hi"),        *)
(*          carrying animation metadata;                                   *)
(*   "ab"   an entry that lists a synonym an earlier entry already lists   *)
(*          ("see you later": "bye", after "goodbye": "bye") and a         *)
(*          synonym of several words ("goodbye": "see you");               *)
(*   "a b"  a key of several words whose tokens are a key and a synonym    *)
(*          ("good night": "good", "night"), with a one-word synonym;      *)
(*   "c a"  a key of several words with a token that is neither a key nor  *)
(*          a synonym ("thank you", "no problem");                         *)
(*   "ba"   an entry with a digit synonym ("one": "1") and a synonym that  *)
(*          is itself a key ("stop": "wait").                              *)
(* Every key is lower case, holds none of the separators of line 807 and   *)
(* equals the word field of its entry, as in the source table.             *)
(***************************************************************************)
VocabularyTable ==
    << [key |-> <<"a">>,
        data |-> [word |-> <<"a">>, category |-> "greetings",
                  synonyms |-> << <<"b">> >>,
                  description |-> "Wave hand near face",
                  animation_type |-> "css",
                  animation_data |-> "wave-animation"]],
       [key |-> <<"a", "b">>,
        data |-> [word |-> <<"a", "b">>, category |-> "phrases",
                  synonyms |-> << <<"b">>, <<"b", " ", "a">> >>,
                  description |-> "Wave then point forward"]],
       [key |-> <<"a", " ", "b">>,
        data |-> [word |-> <<"a", " ", "b">>, category |-> "greetings",
                  synonyms |-> << <<"b", "b">> >>,
                  description |-> "Good sign then hands fold down"]],
       [key |-> <<"c", " ", "a">>,
        data |-> [word |-> <<"c", " ", "a">>, category |-> "responses",
                  synonyms |-> << >>,
                  description |-> "Flat hand from chin forward"]],
       [key |-> <<"b", "a">>,
        data |-> [word |-> <<"b", "a">>, category |-> "numbers",
                  synonyms |-> << <<"1">>, <<"a">> >>,
                  description |-> "Hold up index finger"]] >>

\* SIGN_VOCABULARY.keys(), in insertion order
vocabulary_keys(vocab) == [i \in 1..Len(vocab) |-> vocab[i].key]

\* word in SIGN_VOCABULARY
in_vocabulary(vocab, word) == \E i \in 1..Len(vocab) : vocab[i].key = word

\* SIGN_VOCABULARY[word]
vocabulary_get(vocab, word) ==
    vocab[CHOOSE i \in 1..Len(vocab) : vocab[i].key = word].data

(***************************************************************************)
(* Local matcher: local_match_signs                                        *)
(***************************************************************************)
\* A sign is a dict object.  table_entry is no key of the dict: it tells
\* whether the object is the very dict SIGN_VOCABULARY holds, so that a
\* write to the sign is a write to the table, or a dict of its own.

\* sign_of without the copy: confidence and matched_from are set on the
\* entry of the table and the entry itself is put in the list
sign_of_no_copy(sign_data, confidence, matched_from) ==
    merge(sign_data, [confidence |-> confidence, matched_from |-> matched_from,
                      table_entry |-> TRUE])

\* {**sign_data, "confidence": confidence, "matched_from": matched_from}:
\* a new dict with the items of sign_data
sign_of(sign_data, confidence, matched_from) ==
    merge(sign_data, [confidence |-> confidence, matched_from |-> matched_from,
                      table_entry |-> FALSE])

\* the entry appended for a multi-word key found in the text (lines 814-818)
phrase_sign(sign_word, sign_data) == sign_of(sign_data, CONF_EXACT, sign_word)

\* direct_sign with the confidence of a synonym match
direct_sign_as_synonym(vocab, word) == sign_of(vocabulary_get(vocab, word), CONF_SYNONYM, word)

\* the entry appended for a token that is a vocabulary key (lines 828-832)
direct_sign(vocab, word) == sign_of(vocabulary_get(vocab, word), CONF_EXACT, word)

\* the entry appended for a token found in a synonym list (lines 839-843)
synonym_sign(sign_data, word) == sign_of(sign_data, CONF_SYNONYM, word)

\* the fingerspelled entry of lines 859-867 and 960-968
fingerspell_sign(word, letters, confidence) ==
    [word |-> word, category |-> "fingerspelled", synonyms |-> << >>,
     description |-> <<"Finger-spell the word '", word, "'">>,
     letters |-> letters, confidence |-> confidence, matched_from |-> word,
     table_entry |-> FALSE]

\* the condition of line 813
phrase_matches(sign_word, text_lower, matched_words) ==
    /\ " " \in Range(sign_word)
    /\ contains(text_lower, sign_word)
    /\ sign_word \notin matched_words

\* lines 812-819: the loop over SIGN_VOCABULARY.items(), from entry i on
RECURSIVE phrase_pass(_, _, _, _)
phrase_pass(vocab, text_lower, i, acc) ==
    IF i > Len(vocab) THEN acc
    ELSE LET sign_word == vocab[i].key
             sign_data == vocab[i].data
         IN IF phrase_matches(sign_word, text_lower, acc.matched_words)
            THEN phrase_pass(vocab, text_lower, i + 1,
                     [matched_signs |-> Append(acc.matched_signs, phrase_sign(sign_word, sign_data)),
                      matched_words |-> acc.matched_words \cup {sign_word}])
            ELSE phrase_pass(vocab, text_lower, i + 1, acc)

\* lines 837-845: index of the first entry listing word as a synonym, 0 if none
first_synonym_entry(vocab, word) ==
    LET hits == {i \in 1..Len(vocab) : in_list(word, vocab[i].data.synonyms)}
    IN IF hits = {} THEN 0 ELSE CHOOSE i \in hits : \A j \in hits : i <= j

\* word_step without the test of line 823: a repeated word is matched again
word_step_no_dedup(vocab, word, acc) ==
    IF in_vocabulary(vocab, word)
    THEN [matched_signs |-> Append(acc.matched_signs, direct_sign(vocab, word)),
          matched_words |-> acc.matched_words \cup {word}]
    ELSE LET i == first_synonym_entry(vocab, word)
         IN IF i = 0 THEN acc
            ELSE [matched_signs |-> Append(acc.matched_signs, synonym_sign(vocab[i].data, word)),
                  matched_words |-> acc.matched_words \cup {word}]

\* lines 823-845: the body of the loop over words, for one word
word_step(vocab, word, acc) ==
    IF word \in acc.matched_words THEN acc
    ELSE IF in_vocabulary(vocab, word)
    THEN [matched_signs |-> Append(acc.matched_signs, direct_sign(vocab, word)),
          matched_words |-> acc.matched_words \cup {word}]
    ELSE LET i == first_synonym_entry(vocab, word)
         IN IF i = 0 THEN acc
            ELSE [matched_signs |-> Append(acc.matched_signs, synonym_sign(vocab[i].data, word)),
                  matched_words |-> acc.matched_words \cup {word}]

\* lines 822-845: the loop over words, from word i on
RECURSIVE word_pass(_, _, _, _)
word_pass(vocab, words, i, acc) ==
    IF i > Len(words) THEN acc
    ELSE word_pass(vocab, words, i + 1, word_step(vocab, words[i], acc))

\* fingerspell_step without the test of line 856: a word without letters
\* gets an entry too
fingerspell_step_keep_letterless(word, acc) ==
    IF word = <<>> \/ word \in acc.matched_words THEN acc
    ELSE [matched_signs |-> Append(acc.matched_signs,
                                   fingerspell_sign(word, alpha_letters(word),
                                                    CONF_FINGERSPELL_LOCAL)),
          matched_words |-> acc.matched_words \cup {word}]

\* lines 850-868: the body of the fingerspell loop, for one word
fingerspell_step(word, acc) ==
    IF word = <<>> \/ word \in acc.matched_words THEN acc
    ELSE LET letters == alpha_letters(word)
         IN IF letters = <<>> THEN acc
            ELSE [matched_signs |-> Append(acc.matched_signs,
                                           fingerspell_sign(word, letters, CONF_FINGERSPELL_LOCAL)),
                  matched_words |-> acc.matched_words \cup {word}]

\* lines 849-868: the fingerspell loop over words, from word i on
RECURSIVE fingerspell_pass(_, _, _)
fingerspell_pass(words, i, acc) ==
    IF i > Len(words) THEN acc
    ELSE fingerspell_pass(words, i + 1, fingerspell_step(words[i], acc))

\* line 807: the tokens of the text
local_words(text) == split(replace_separators(lower(text)))

\* lines 804-870
local_match_signs(vocab, text) ==
    LET text_lower == lower(text)
        words == local_words(text)
        start == [matched_signs |-> << >>, matched_words |-> {}]
        phrases == phrase_pass(vocab, text_lower, 1, start)
        hits == word_pass(vocab, words, 1, phrases)
        spelled == fingerspell_pass(words, 1, hits)
    IN spelled.matched_signs

(***************************************************************************)
(* Remote matcher: gemini_match_signs.  The reply of the external service  *)
(* is either an exception or a text, a sequence of lines; a line starts    *)
(* with a code fence or holds a JSON value.  A JSON value is kept as far   *)
(* as the code tells values apart: not JSON at all, a value that cannot be *)
(* iterated (number, boolean, null), or a value that can (an array; also a *)
(* string or an object, whose elements are strings).  An element is an     *)
(* object with optional word, confidence and matched_from, or anything     *)
(* else.                                                                   *)
(***************************************************************************)
JAbsent == [t |-> "absent", s |-> << >>, n |-> 0]

JStr(s) == [t |-> "str", s |-> s, n |-> 0]

JNum(n) == [t |-> "num", s |-> << >>, n |-> n]

\* null, a boolean, a list or an object where a string or a number is expected
JOther == [t |-> "other", s |-> << >>, n |-> 0]

JObject(word, confidence, matched_from) ==
    [t |-> "object", word |-> word, confidence |-> confidence, matched_from |-> matched_from]

JNonObject == [t |-> "other", word |-> JAbsent, confidence |-> JAbsent, matched_from |-> JAbsent]

JInvalid == [t |-> "invalid", items |-> << >>]

JScalar == [t |-> "scalar", items |-> << >>]

\* a JSON array
JIterable(items) == [t |-> "iterable", items |-> items]

\* the JSON object {} and the JSON string "": the loop of line 914 runs over
\* them as over an empty array
JEmptyNonArray == [t |-> "iterable_non_array", items |-> << >>]

FenceLine == [fence |-> TRUE, json |-> JInvalid]

JsonLine(j) == [fence |-> FALSE, json |-> j]

\* a line that starts with a fence and goes on with the JSON value
FencedJsonLine(j) == [fence |-> TRUE, json |-> j]

ServiceRaises == [raises |-> TRUE, lines |-> << >>]

ServiceText(lines) == [raises |-> FALSE, lines |-> lines]

\* the elements the service answers with: something that is no object, and
\* objects naming a key in upper case, a word outside the vocabulary, no
\* word at all or a word that is no string, with no confidence or with a
\* confidence outside [0,1], with or without matched_from
ReplyItems ==
    {JNonObject,
     JObject(JStr(<<"A">>), JAbsent, JAbsent),
     JObject(JStr(<<"A">>), JNum(150), JStr(<<"c">>)),
     JObject(JStr(<<"b", "a">>), JNum(95), JAbsent),
     JObject(JStr(<<"c", "c">>), JNum(95), JAbsent),
     JObject(JAbsent, JAbsent, JAbsent),
     JObject(JOther, JNum(95), JAbsent)}

\* the JSON values the service answers a request with in Spec: no JSON, a
\* number, an empty object, the empty array, an array of one element and
\* two arrays of two (SpecRemote goes through every array of ReplyItems)
ReplyJsons ==
    {JInvalid, JScalar, JEmptyNonArray, JIterable(<< >>),
     JIterable(<<JObject(JStr(<<"A">>), JNum(150), JStr(<<"c">>))>>),
     JIterable(<<JObject(JStr(<<"b", "a">>), JNum(95), JAbsent),
                 JObject(JStr(<<"A">>), JAbsent, JAbsent)>>),
     JIterable(<<JObject(JStr(<<"A">>), JAbsent, JAbsent), JNonObject>>)}

\* the replies of the service to a request in Spec: an exception, the bare
\* JSON text, the JSON text inside a fenced block, and a single line that
\* starts with a fence
ServiceReplies ==
    {ServiceRaises} \cup
    {ServiceText(<<JsonLine(j)>>) : j \in ReplyJsons} \cup
    {ServiceText(<<FenceLine,
                   JsonLine(JIterable(<<JObject(JStr(<<"A">>), JNum(150), JStr(<<"c">>))>>)),
                   FenceLine>>),
     ServiceText(<<FencedJsonLine(JIterable(<< >>))>>)}

\* lines 906-908: lines[1:-1] when the text starts with a fence
strip_code_fence(lines) ==
    IF lines # << >> /\ lines[1].fence
    THEN SubSeq(lines, 2, Len(lines) - 1)
    ELSE lines

\* line 910, json.loads: the value of a text of one line holding one JSON
\* value; JInvalid (JSONDecodeError) for any other text
json_loads(lines) ==
    IF Len(lines) = 1 /\ ~lines[1].fence THEN lines[1].json ELSE JInvalid

\* confidence_of without the returned value: always the default
confidence_of_default(match) == CONF_GEMINI_DEFAULT

\* match.get('confidence', 0.8)
confidence_of(match) ==
    IF match.confidence.t = "absent" THEN CONF_GEMINI_DEFAULT ELSE match.confidence.n

\* match.get('matched_from', word)
matched_from_of(match, word) ==
    IF match.matched_from.t = "absent" THEN word ELSE match.matched_from.s

\* lines 915-921 raise AttributeError: match has no get, or word no lower
match_raises(match) == match.t # "object" \/ match.word.t \notin {"absent", "str"}

\* match.get('word', '').lower()
match_word(match) == IF match.word.t = "absent" THEN << >> ELSE lower(match.word.s)

\* lines 914-921: the loop over matches, from match i on
RECURSIVE enrich_matches(_, _, _, _)
enrich_matches(vocab, matches, i, acc) ==
    IF i > Len(matches) THEN [raised |-> FALSE, signs |-> acc]
    ELSE IF match_raises(matches[i]) THEN [raised |-> TRUE, signs |-> << >>]
    ELSE LET word == match_word(matches[i])
         IN IF in_vocabulary(vocab, word)
            THEN enrich_matches(vocab, matches, i + 1,
                     Append(acc, sign_of(vocabulary_get(vocab, word),
                                         confidence_of(matches[i]),
                                         matched_from_of(matches[i], word))))
            ELSE enrich_matches(vocab, matches, i + 1, acc)

\* return None, reason
remote_failure(reason, api_calls) ==
    [raised |-> FALSE, is_none |-> TRUE, signs |-> << >>, error |-> reason,
     api_calls |-> api_calls]

\* return enriched_matches, None
remote_success(signs, api_calls) ==
    [raised |-> FALSE, is_none |-> FALSE, signs |-> signs, error |-> "",
     api_calls |-> api_calls]

\* an exception that leaves gemini_match_signs: nothing is returned
remote_raise(api_calls) ==
    [raised |-> TRUE, is_none |-> FALSE, signs |-> << >>, error |-> "",
     api_calls |-> api_calls]

\* lines 877-923, the body of the try: the exception it ends with ("" when
\* it reaches the return of line 923) and the list built
gemini_try(vocab, service) ==
    IF service.raises THEN [exc |-> "Exception", signs |-> << >>]
    ELSE LET matches == json_loads(strip_code_fence(service.lines))
         IN IF matches.t = "invalid" THEN [exc |-> "JSONDecodeError", signs |-> << >>]
            ELSE IF matches.t = "scalar" THEN [exc |-> "TypeError", signs |-> << >>]
            ELSE LET enriched == enrich_matches(vocab, matches.items, 1, << >>)
                 IN IF enriched.raised THEN [exc |-> "AttributeError", signs |-> << >>]
                    ELSE [exc |-> "", signs |-> enriched.signs]

\* gemini_except with a second call of the service before giving up
gemini_except_retry(exc) ==
    IF exc = "JSONDecodeError" THEN remote_failure("Failed to parse Gemini response", 2)
    ELSE remote_failure("Gemini API error", 2)

\* gemini_except with the clause of line 925 only: other exceptions leave
\* the function
gemini_except_json_only(exc) ==
    IF exc = "JSONDecodeError" THEN remote_failure("Failed to parse Gemini response", 1)
    ELSE remote_raise(1)

\* lines 925-928: the except clauses, for the exception exc of the try body
gemini_except(exc) ==
    IF exc = "JSONDecodeError" THEN remote_failure("Failed to parse Gemini response", 1)
    ELSE remote_failure("Gemini API error", 1)

\* lines 872-928
gemini_match_signs(vocab, api_key, service) ==
    IF api_key = << >> THEN remote_failure("No API key configured", 0)
    ELSE LET tried == gemini_try(vocab, service)
         IN IF tried.exc = "" THEN remote_success(tried.signs, 1)
            ELSE gemini_except(tried.exc)

(***************************************************************************)
(* Media enrichment: add_video_urls_to_signs                               *)
(***************************************************************************)
\* a file name: stem and extension
File(stem, ext) == [stem |-> stem, ext |-> ext]

\* fn.lower()
lower_file(fn) == [stem |-> lower(fn.stem), ext |-> IF fn.ext = ".MP4" THEN ".mp4" ELSE fn.ext]

\* url_for("serve_video", filename=fn), and None
VideoUrl(fn) == [null |-> FALSE, filename |-> fn]

NoUrl == [null |-> TRUE, filename |-> File(<< >>, "")]

\* line 1008 and the lookups of lines 1015 and 1027: key in files
has_file(dir, stem) == \E fn \in dir.files : lower_file(fn) = File(stem, ".mp4")

\* files[key]
file_of(dir, stem) == CHOOSE fn \in dir.files : lower_file(fn) = File(stem, ".mp4")

\* lines 1022-1030: the reference or None of one letter
letter_video(dir, ch) ==
    IF ~isalpha(ch) THEN NoUrl
    ELSE IF has_file(dir, <<lower_char(ch)>>) THEN VideoUrl(file_of(dir, <<lower_char(ch)>>))
    ELSE NoUrl

\* with_letter_videos without the test of line 1032: the list is attached
\* even when it holds no reference
with_letter_videos_always(dir, sign) ==
    merge(sign, [letter_videos |->
                     [k \in 1..Len(sign.letters) |-> letter_video(dir, sign.letters[k])]])

\* lines 1019-1033 for one fingerspelled sign
with_letter_videos(dir, sign) ==
    LET letter_video_urls == [k \in 1..Len(sign.letters) |-> letter_video(dir, sign.letters[k])]
    IN IF \E k \in 1..Len(letter_video_urls) : ~letter_video_urls[k].null
       THEN merge(sign, [letter_videos |-> letter_video_urls])
       ELSE sign

\* lines 1011-1016 for one sign
with_video_url(dir, sign) ==
    LET key == lower(strip(sign.word))
    IN IF has_file(dir, key)
       THEN merge(sign, [video_url |-> VideoUrl(file_of(dir, key))])
       ELSE sign

\* lines 1010-1033: the body of the loop, for one sign
add_video_urls_to_sign(dir, sign) ==
    LET s1 == with_video_url(dir, sign)
    IN IF s1.category = "fingerspelled" THEN with_letter_videos(dir, s1) ELSE s1

\* lines 999-1033
add_video_urls_to_signs(dir, signs) ==
    IF ~dir.isdir THEN signs
    ELSE [k \in 1..Len(signs) |-> add_video_urls_to_sign(dir, signs[k])]

\* the items of the dict object sign
dict_items(sign) == [f \in DOMAIN sign \ {"table_entry"} |-> sign[f]]

\* SIGN_VOCABULARY once signs has been built and enriched: an entry whose
\* dict is itself an element of signs holds what was written to that
\* element (lines 1016 and 1033 assign to sign[...]); the others are as
\* they were
written_vocabulary(vocab, signs) ==
    [i \in 1..Len(vocab) |->
        LET written == {k \in 1..Len(signs) :
                           signs[k].table_entry /\ signs[k].word = vocab[i].data.word}
        IN IF written = {} THEN vocab[i]
           ELSE [key |-> vocab[i].key,
                 data |-> dict_items(signs[CHOOSE k \in written : \A j \in written : k >= j])]]

(***************************************************************************)
(* Request handler: match_signs                                            *)
(***************************************************************************)
\* text.strip()[:2000]
MAX_TEXT_LENGTH == 2000

truncate(s) == IF Len(s) > MAX_TEXT_LENGTH THEN SubSeq(s, 1, MAX_TEXT_LENGTH) ELSE s

\* bool(data.get(flag, default))
flag_value(flag, default) ==
    IF flag = "absent" THEN default ELSE flag = "true"

\* lines 954-968: one fingerspelled sign per token that holds a letter
RECURSIVE forced_signs(_, _)
forced_signs(words, i) ==
    IF i > Len(words) THEN << >>
    ELSE LET w == words[i]
             letters == alpha_letters(w)
         IN IF letters = << >> THEN forced_signs(words, i + 1)
            ELSE <<fingerspell_sign(w, letters, CONF_FINGERSPELL_FORCED)>>
                 \o forced_signs(words, i + 1)

\* forced_words with the tokens of the local matcher (line 807)
forced_words_as_local(text) == split(replace_separators(text))

\* line 954
forced_words(text) == split(sub_non_alnum(text))

\* jsonify(...), status: the fields of the JSON body that are present;
\* signs holds the dicts handed to jsonify
error_response(status, error) ==
    [status |-> status, fields |-> {"error"}, signs |-> << >>, method |-> "",
     error |-> error, text |-> << >>]

\* line 945
no_text_response ==
    [status |-> 400, fields |-> {"signs", "method", "error"}, signs |-> << >>,
     method |-> "none", error |-> "No text provided", text |-> << >>]

\* lines 975, 988 and 996
match_response(signs, method, text) ==
    [status |-> 200, fields |-> {"signs", "method", "text"}, signs |-> signs,
     method |-> method, error |-> "", text |-> text]

\* line 944: isinstance(text, str) and text.strip()
valid_text(req) == req.text_type = "string" /\ strip(req.text) # << >>

\* try_gemini without the test of use_ai
try_gemini_ignoring_use_ai(use_ai, api_key) == api_key # << >>

\* line 978
try_gemini(use_ai, api_key) == use_ai /\ api_key # << >>

\* what the handler did for a request: the calls of the two matchers, the
\* invocations of the external service and its reply, the line logged
no_calls ==
    [local_calls |-> 0, remote_calls |-> 0, api_calls |-> 0, service |-> ServiceRaises,
     remote_failed |-> FALSE, log |-> ""]

remote_call(remote, service, local_calls) ==
    [local_calls |-> local_calls, remote_calls |-> 1, api_calls |-> remote.api_calls,
     service |-> service, remote_failed |-> remote.is_none,
     log |-> IF remote.is_none THEN "Gemini error, falling back to local" ELSE ""]

\* lines 970-975
forced_response(dir, text) ==
    match_response(add_video_urls_to_signs(dir, forced_signs(forced_words(text), 1)),
                   "fingerspell", text)

\* lines 983-988
gemini_response(dir, signs, text) ==
    match_response(add_video_urls_to_signs(dir, signs), "gemini", text)

\* local_response without the call of line 991
local_response_without_match(vocab, dir, text) == match_response(<< >>, "local", text)

\* lines 990-996
local_response(vocab, dir, text) ==
    match_response(add_video_urls_to_signs(dir, local_match_signs(vocab, text)),
                   "local", text)

\* lines 946-996: the handler once the text is validated
match_valid(vocab, api_key, dir, req, service) ==
    LET text == truncate(strip(req.text))
        use_ai == flag_value(req.use_ai, TRUE)
        force_fingerspell == flag_value(req.force_fingerspell, FALSE)
        remote == gemini_match_signs(vocab, api_key, service)
    IN IF force_fingerspell
       THEN [response |-> forced_response(dir, text), trace |-> no_calls]
       ELSE IF try_gemini(use_ai, api_key)
       THEN IF remote.raised
            THEN [response |-> error_response(500, "Internal Server Error"),
                  trace |-> remote_call(remote, service, 0)]
            ELSE IF remote.is_none
                 THEN [response |-> local_response(vocab, dir, text),
                       trace |-> remote_call(remote, service, 1)]
                 ELSE [response |-> gemini_response(dir, remote.signs, text),
                       trace |-> remote_call(remote, service, 0)]
       ELSE [response |-> local_response(vocab, dir, text),
             trace |-> [no_calls EXCEPT !.local_calls = 1]]

\* lines 936-996, with the error handlers of lines 1076-1084
handle_match(vocab, api_key, dir, req, service) ==
    IF req.kind = "not_json"
    THEN [response |-> error_response(400, "Expected JSON payload"), trace |-> no_calls]
    ELSE IF req.kind = "malformed_json"
    THEN [response |-> error_response(400, "400 Bad Request"), trace |-> no_calls]
    ELSE IF req.kind = "non_object"
    THEN [response |-> error_response(500, "Internal Server Error"), trace |-> no_calls]
    ELSE IF ~valid_text(req)
    THEN [response |-> no_text_response, trace |-> no_calls]
    ELSE match_valid(vocab, api_key, dir, req, service)

(***************************************************************************)
(* State                                                                   *)
(***************************************************************************)
NoRequest == [kind |-> "none", text_type |-> "missing", text |-> << >>,
              use_ai |-> "absent", force_fingerspell |-> "absent"]

NoResponse == [status |-> 0, fields |-> {}, signs |-> << >>, method |-> "",
               error |-> "", text |-> << >>]

NoTrace == no_calls

NoCall == [fn |-> "none", state |-> "returned", arg |-> << >>, ret |-> << >>]

\* the listing of the videos directory: none when it is not a directory
NoDir == [isdir |-> FALSE, files |-> {}]

(***************************************************************************)
(* SpecLocal: local_match_signs applied to every text of bounded length.   *)
(* The initial states hold the argument of the call, CallLocal returns.    *)
(***************************************************************************)
InitLocal ==
    /\ SIGN_VOCABULARY = VocabularyTable
    /\ GEMINI_API_KEY = << >>
    /\ VIDEOS_DIR = NoDir
    /\ request = NoRequest
    /\ response = NoResponse
    /\ trace = NoTrace
    /\ \E text \in Strings(MaxLen) :
           call = [fn |-> "local_match_signs", state |-> "called", arg |-> text, ret |-> << >>]

CallLocal ==
    /\ call.fn = "local_match_signs"
    /\ call.state = "called"
    /\ call' = [call EXCEPT !.state = "returned",
                            !.ret = local_match_signs(SIGN_VOCABULARY, call.arg)]
    /\ SIGN_VOCABULARY' = written_vocabulary(SIGN_VOCABULARY, call'.ret)
    /\ UNCHANGED <<GEMINI_API_KEY, VIDEOS_DIR, request, response, trace>>

NextLocal == CallLocal

SpecLocal == InitLocal /\ [][NextLocal]_vars

(***************************************************************************)
(* SpecRemote: gemini_match_signs applied to every reply of the external   *)
(* service with an array of bounded length, with and without a credential. *)
(* The text of the request only reaches the prompt; what the service makes *)
(* of it is the reply.                                                     *)
(***************************************************************************)
\* the values of the environment variable GEMINI_API_KEY (line 41)
ApiKeys == {<< >>, <<"k">>}

\* the JSON values of the replies: no JSON, a number, an empty object, and
\* every array of at most MaxItems of the elements of ReplyItems
RemoteJsons ==
    {JInvalid, JScalar, JEmptyNonArray} \cup
    {JIterable(items) : items \in UNION {[1..k -> ReplyItems] : k \in 0..MaxItems}}

\* the replies: an exception, and each JSON value bare, inside a fenced
\* block, after a fence that is never closed, and on the line of the fence
RemoteReplies ==
    {ServiceRaises} \cup
    {ServiceText(<<JsonLine(j)>>) : j \in RemoteJsons} \cup
    {ServiceText(<<FenceLine, JsonLine(j), FenceLine>>) : j \in RemoteJsons} \cup
    {ServiceText(<<FenceLine, JsonLine(j)>>) : j \in RemoteJsons} \cup
    {ServiceText(<<FencedJsonLine(j)>>) : j \in RemoteJsons}

InitRemote ==
    /\ SIGN_VOCABULARY = VocabularyTable
    /\ GEMINI_API_KEY \in ApiKeys
    /\ VIDEOS_DIR = NoDir
    /\ request = NoRequest
    /\ response = NoResponse
    /\ trace = NoTrace
    /\ \E service \in RemoteReplies :
           call = [fn |-> "gemini_match_signs", state |-> "called", arg |-> service,
                   ret |-> << >>]

CallRemote ==
    /\ call.fn = "gemini_match_signs"
    /\ call.state = "called"
    /\ call' = [call EXCEPT !.state = "returned",
                            !.ret = gemini_match_signs(SIGN_VOCABULARY, GEMINI_API_KEY, call.arg)]
    /\ SIGN_VOCABULARY' = written_vocabulary(SIGN_VOCABULARY, call'.ret.signs)
    /\ UNCHANGED <<GEMINI_API_KEY, VIDEOS_DIR, request, response, trace>>

NextRemote == CallRemote

SpecRemote == InitRemote /\ [][NextRemote]_vars

(***************************************************************************)
(* Spec: the server.  A request is handled in one step, the view function  *)
(* of its route; the response then leaves the server and the next request  *)
(* can come.  Rate limiting is not modelled: no request is refused for     *)
(* coming too soon after others.                                           *)
(***************************************************************************)
Flags == {"absent", "true", "false"}

\* the texts of the requests: the separators of line 807 are left to the
\* texts local_match_signs is applied to directly; the apostrophe stands for
\* the characters the handler removes (line 954)
RequestTexts ==
    {t \in Strings(MaxReqLen) : \A i \in 1..Len(t) : t[i] \notin Separators}

\* the POST /api/match requests: a body that is not JSON by its content
\* type, a JSON body that does not parse, a JSON value that is no object,
\* and objects with or without a text
Requests ==
    {[kind |-> k, text_type |-> "missing", text |-> << >>,
      use_ai |-> "absent", force_fingerspell |-> "absent"] :
        k \in {"not_json", "malformed_json", "non_object"}} \cup
    {[kind |-> "object", text_type |-> ty, text |-> << >>,
      use_ai |-> u, force_fingerspell |-> f] :
        ty \in {"missing", "non_string"}, u \in Flags, f \in Flags} \cup
    {[kind |-> "object", text_type |-> "string", text |-> t,
      use_ai |-> u, force_fingerspell |-> f] :
        t \in RequestTexts, u \in Flags, f \in Flags}

\* the states of the videos directory: absent, or holding these files
VideoDirs ==
    {NoDir,
     [isdir |-> TRUE, files |-> {File(<<"A">>, ".mp4"), File(<<"b">>, ".MP4"),
                                 File(<<"c">>, ".gif")}]}

Init ==
    /\ SIGN_VOCABULARY = VocabularyTable
    /\ GEMINI_API_KEY \in ApiKeys
    /\ VIDEOS_DIR \in VideoDirs
    /\ request = NoRequest
    /\ response = NoResponse
    /\ trace = NoTrace
    /\ call = NoCall

\* the replies the service can give to the request: the service is called,
\* and so answers, only on the path of lines 978-979
replies_to(api_key, req) ==
    IF /\ req.kind = "object"
       /\ valid_text(req)
       /\ ~flag_value(req.force_fingerspell, FALSE)
       /\ try_gemini(flag_value(req.use_ai, TRUE), api_key)
    THEN ServiceReplies
    ELSE {ServiceRaises}

\* lines 936-996: POST /api/match with body req, the external service
\* answering as service when it is called
match_signs ==
    /\ request = NoRequest
    /\ \E req \in Requests :
           \E service \in replies_to(GEMINI_API_KEY, req) :
               LET out == handle_match(SIGN_VOCABULARY, GEMINI_API_KEY, VIDEOS_DIR, req, service)
               IN /\ request' = req
                  /\ response' = out.response
                  /\ trace' = out.trace
                  /\ SIGN_VOCABULARY' = written_vocabulary(SIGN_VOCABULARY, out.response.signs)
    /\ UNCHANGED <<GEMINI_API_KEY, VIDEOS_DIR, call>>

\* lines 1088-1095: the response passes the after_request hook and is sent
set_security_headers ==
    /\ request # NoRequest
    /\ request' = NoRequest
    /\ response' = NoResponse
    /\ trace' = NoTrace
    /\ UNCHANGED <<SIGN_VOCABULARY, GEMINI_API_KEY, VIDEOS_DIR, call>>

\* a request to one of the GET routes: param is the part of the URL the
\* view function reads
get_request(kind, param) ==
    [kind |-> kind, text_type |-> "missing", text |-> param,
     use_ai |-> "absent", force_fingerspell |-> "absent"]

\* a response without signs: an HTML page, a file or a JSON object with
\* these fields
plain_response(status, fields) ==
    [status |-> status, fields |-> fields, signs |-> << >>, method |-> "",
     error |-> "", text |-> << >>]

\* lines 930-934: GET /, /index, /index.html
index ==
    /\ request = NoRequest
    /\ request' = get_request("index", << >>)
    /\ response' = plain_response(200, {})
    /\ trace' = no_calls
    /\ UNCHANGED <<SIGN_VOCABULARY, GEMINI_API_KEY, VIDEOS_DIR, call>>

\* the values of ?category=: none, two categories of the table, an unknown one
Categories == {<< >>, <<"greetings">>, <<"numbers">>, <<"verbs">>}

\* lines 1046-1054: GET /api/vocabulary; the entries of the table are read
\* and serialised
get_vocabulary ==
    /\ request = NoRequest
    /\ \E category \in Categories : request' = get_request("get_vocabulary", category)
    /\ response' = plain_response(200, {"vocabulary", "categories", "count"})
    /\ trace' = no_calls
    /\ UNCHANGED <<SIGN_VOCABULARY, GEMINI_API_KEY, VIDEOS_DIR, call>>

\* lines 1057-1064: GET /api/vocabulary/<word>
get_vocabulary_item ==
    /\ request = NoRequest
    /\ \E word \in Strings(MaxReqLen) \ {<< >>} :
           /\ request' = get_request("get_vocabulary_item", word)
           /\ response' = IF in_vocabulary(SIGN_VOCABULARY, lower(word))
                          THEN plain_response(200, {"word", "data"})
                          ELSE error_response(404, "Not found")
    /\ trace' = no_calls
    /\ UNCHANGED <<SIGN_VOCABULARY, GEMINI_API_KEY, VIDEOS_DIR, call>>

\* lines 1066-1072: GET /api/status
get_status ==
    /\ request = NoRequest
    /\ request' = get_request("get_status", << >>)
    /\ response' = plain_response(200, {"gemini_configured", "vocabulary_count"})
    /\ trace' = no_calls
    /\ UNCHANGED <<SIGN_VOCABULARY, GEMINI_API_KEY, VIDEOS_DIR, call>>

\* the file names asked of /videos/: those of the model directories and one
\* that is in none
VideoNames == {<<"A", ".mp4">>, <<"b", ".MP4">>, <<"c", ".gif">>, <<"a", ".gif">>}

\* lines 1036-1040: GET /videos/<filename>, send_from_directory
serve_video ==
    /\ request = NoRequest
    /\ \E name \in VideoNames :
           /\ request' = get_request("serve_video", name)
           /\ response' = IF File(<<name[1]>>, name[2]) \in VIDEOS_DIR.files
                          THEN plain_response(200, {})
                          ELSE plain_response(404, {})
    /\ trace' = no_calls
    /\ UNCHANGED <<SIGN_VOCABULARY, GEMINI_API_KEY, VIDEOS_DIR, call>>

\* the routes of the application
Serve ==
    \/ match_signs
    \/ index
    \/ get_vocabulary
    \/ get_vocabulary_item
    \/ get_status
    \/ serve_video

Next == Serve \/ set_security_headers

Spec == Init /\ [][Next]_vars

(***************************************************************************)
(* SpecStartup: the module is imported, in an environment where the        *)
(* package flask_limiter is installed, is installed but fails to set up,   *)
(* or is not installed; once imported, the application serves its routes.  *)
(***************************************************************************)
Packages == {"installed", "broken", "absent"}

\* the globals of the module that the import leaves behind, and the
\* exception that ended it ("" when the module body ran to its end)
Globals(exc, limiter, match_limited) ==
    [exc |-> exc, limiter |-> limiter, match_limited |-> match_limited]

NoGlobals == Globals("", "undefined", FALSE)

\* lines 28-38: the limiter once the try statement is done
limiter_setup(flask_limiter) == IF flask_limiter = "installed" THEN "Limiter" ELSE "None"

\* lines 1-47 and 1042-1044: the module body.  The imports of lines 7-8
\* run before the try statement of line 29.
module_body(flask_limiter) ==
    IF flask_limiter = "absent"
    THEN Globals("ModuleNotFoundError", "undefined", FALSE)
    ELSE LET limiter == limiter_setup(flask_limiter)
         IN Globals("", limiter, limiter # "None")

InitStartup ==
    /\ SIGN_VOCABULARY = VocabularyTable
    /\ GEMINI_API_KEY = << >>
    /\ VIDEOS_DIR \in VideoDirs
    /\ request = NoRequest
    /\ response = NoResponse
    /\ trace = NoTrace
    /\ \E package \in Packages :
           call = [fn |-> "import app", state |-> "called",
                   arg |-> [flask_limiter |-> package], ret |-> NoGlobals]

\* import app: the module body runs
import_app ==
    /\ call.fn = "import app"
    /\ call.state = "called"
    /\ LET globals == module_body(call.arg.flask_limiter)
       IN call' = [call EXCEPT !.state = IF globals.exc = "" THEN "returned" ELSE "raised",
                               !.ret = globals]
    /\ UNCHANGED <<SIGN_VOCABULARY, GEMINI_API_KEY, VIDEOS_DIR, request, response, trace>>

\* requests reach the view functions once the module is imported
serve_imported ==
    /\ call.fn = "import app"
    /\ call.state = "returned"
    /\ Next

NextStartup == import_app \/ serve_imported

SpecStartup == InitStartup /\ [][NextStartup]_vars

(***************************************************************************)
(* Claims about the import of the module, checked under SpecStartup        *)
(***************************************************************************)
\* C12: when flask_limiter is not installed the module still loads, with
\* the limiter disabled and POST /api/match not rate limited, and so
\* serves its routes.
C12_StartsWithoutLimiter ==
    (call.fn = "import app" /\ call.state # "called" /\ call.arg.flask_limiter = "absent") =>
        /\ call.state = "returned"
        /\ call.ret.limiter = "None"
        /\ ~call.ret.match_limited

(***************************************************************************)
(* Claims about the local matcher, checked under SpecLocal                 *)
(***************************************************************************)
LocalReturned == call.fn = "local_match_signs" /\ call.state = "returned"

\* the indices of the results of the call whose matched_from is t
ResultsFrom(t) == {i \in 1..Len(call.ret) : call.ret[i].matched_from = t}

\* the position of the first occurrence of t in words
FirstIndex(words, t) ==
    CHOOSE i \in 1..Len(words) : words[i] = t /\ \A j \in 1..(i - 1) : words[j] # t

\* t occurs at least twice in words
Repeated(words, t) == Cardinality({i \in 1..Len(words) : words[i] = t}) >= 2

\* the entries of the table that list s as a synonym
EntriesListing(s) ==
    {i \in 1..Len(SIGN_VOCABULARY) : in_list(s, SIGN_VOCABULARY[i].data.synonyms)}

IsSynonym(s) == EntriesListing(s) # {}

IsPhraseResult(r) == " " \in Range(r.matched_from)

\* C4: for every synonym s of an entry e, s not itself a key, the output of
\* the local matcher for the input s contains e with confidence 0.85.  The
\* formula asks it of one of the entries that list s.
C4_SynonymMatches ==
    (LocalReturned /\ IsSynonym(call.arg) /\ ~in_vocabulary(SIGN_VOCABULARY, call.arg)) =>
        \E e \in EntriesListing(call.arg) :
            \E i \in 1..Len(call.ret) :
                /\ call.ret[i].word = SIGN_VOCABULARY[e].data.word
                /\ call.ret[i].confidence = 85

\* C5: for every vocabulary key k, of one word or of several, the output of
\* the local matcher for the input k contains an entry with word k and
\* confidence 1.0.
C5_KeyMatchesExactly ==
    (LocalReturned /\ in_vocabulary(SIGN_VOCABULARY, call.arg)) =>
        \E i \in 1..Len(call.ret) :
            /\ call.ret[i].word = call.arg
            /\ call.ret[i].confidence = 100

\* C5 witness: the matcher returned for a key of several words and for a
\* key of one word the entry of that key with confidence 1.0.
C5_Witness ==
    /\ LocalReturned
    /\ call.arg = <<"c", " ", "a">>
    /\ \E i \in 1..Len(call.ret) :
           call.ret[i].word = call.arg /\ call.ret[i].confidence = 100

\* C6: the output is all phrase matches first, in vocabulary order, then
\* one run of per-token results in the order of the tokens in the text,
\* word/synonym hits and fingerspelled entries interleaved by position.
C6_TokenOrder ==
    LocalReturned =>
        LET words == local_words(call.arg)
            keys == vocabulary_keys(SIGN_VOCABULARY)
        IN \A i, j \in 1..Len(call.ret) :
               i < j =>
                   LET r == call.ret[i]
                       q == call.ret[j]
                   IN /\ IsPhraseResult(q) => IsPhraseResult(r)
                      /\ (IsPhraseResult(r) /\ IsPhraseResult(q)) =>
                             FirstIndex(keys, r.matched_from) < FirstIndex(keys, q.matched_from)
                      /\ (~IsPhraseResult(r) /\ ~IsPhraseResult(q)) =>
                             FirstIndex(words, r.matched_from) < FirstIndex(words, q.matched_from)

\* C8 as stated: for any token t that occurs several times in the text the
\* output contains exactly one per-token result with matched_from = t.
C8_ExactlyOneResult ==
    LocalReturned =>
        \A t \in Range(local_words(call.arg)) :
            Repeated(local_words(call.arg), t) => Cardinality(ResultsFrom(t)) = 1

\* C8 as amended: for any token t that occurs several times in the text the
\* output contains at most one per-token result with matched_from = t:
\* exactly one when t is a key, a synonym or holds a letter, none otherwise;
\* and the results of one pass stand in the order of the first occurrences
\* of their tokens.
C8_AtMostOneResult ==
    LocalReturned =>
        LET words == local_words(call.arg)
        IN /\ \A t \in Range(words) :
                  Repeated(words, t) =>
                      IF \/ in_vocabulary(SIGN_VOCABULARY, t)
                         \/ IsSynonym(t)
                         \/ \E k \in 1..Len(t) : isalpha(t[k])
                      THEN Cardinality(ResultsFrom(t)) = 1
                      ELSE ResultsFrom(t) = {}
           /\ \A i, j \in 1..Len(call.ret) :
                  LET r == call.ret[i]
                      q == call.ret[j]
                  IN (/\ i < j
                      /\ ~IsPhraseResult(r) /\ ~IsPhraseResult(q)
                      /\ (r.category = "fingerspelled") = (q.category = "fingerspelled"))
                     => FirstIndex(words, r.matched_from) < FirstIndex(words, q.matched_from)

\* C8 witness: a key, then another word, then the same key again, answered
\* with one result for the key, ahead of the result of the other word.
C8_Witness ==
    /\ LocalReturned
    /\ call.arg = <<"a", " ", "b", " ", "a">>
    /\ Cardinality(ResultsFrom(<<"a">>)) = 1
    /\ \E i, j \in 1..Len(call.ret) :
           i < j /\ call.ret[i].matched_from = <<"a">> /\ call.ret[j].matched_from = <<"b">>

\* C9: every token that is no key and no synonym and holds a letter yields
\* exactly one entry: fingerspelled, confidence 0.5, matched_from the token,
\* letters the alphabetic characters of the token in their order.
C9_FingerspellFallback ==
    LocalReturned =>
        \A t \in Range(local_words(call.arg)) :
            (/\ ~in_vocabulary(SIGN_VOCABULARY, t)
             /\ ~IsSynonym(t)
             /\ \E k \in 1..Len(t) : isalpha(t[k]))
            => /\ Cardinality(ResultsFrom(t)) = 1
               /\ \A i \in ResultsFrom(t) :
                      /\ call.ret[i].category = "fingerspelled"
                      /\ call.ret[i].confidence = 50
                      /\ call.ret[i].word = t
                      /\ call.ret[i].letters = SelectSeq(t, isalpha)

\* C9 witness: a token of letters and other characters, no key and no
\* synonym, is the only token and the output is its one fingerspelled entry
\* with fewer letters than the token has characters.
C9_Witness ==
    /\ LocalReturned
    /\ call.arg = <<"c", "1", "'", "c">>
    /\ Len(call.ret) = 1
    /\ call.ret[1].category = "fingerspelled"
    /\ call.ret[1].letters = <<"c", "c">>

\* how often t occurs in words
Count(words, t) == Cardinality({i \in 1..Len(words) : words[i] = t})

\* C13: no token is matched twice: a token that is part of a phrase matched
\* in the phrase pass, and occurs in the text only as part of it, gets no
\* result of its own from the word pass, the synonym pass or the
\* fingerspell fallback.
C13_NoTokenMatchedTwice ==
    LocalReturned =>
        LET words == local_words(call.arg)
        IN \A i \in 1..Len(call.ret) :
               IsPhraseResult(call.ret[i]) =>
                   LET parts == split(call.ret[i].matched_from)
                   IN \A t \in Range(parts) :
                          Count(words, t) <= Count(parts, t) => ResultsFrom(t) = {}

HasLetter(t) == \E k \in 1..Len(t) : isalpha(t[k])

\* C14 as stated: a token without an alphabetic character produces no entry
\* in the output.
C14_LetterlessDropped ==
    LocalReturned =>
        \A t \in Range(local_words(call.arg)) :
            ~HasLetter(t) => ResultsFrom(t) = {}

\* C14 as amended: a token without an alphabetic character produces an
\* entry exactly when it is a vocabulary key or a synonym, and then the one
\* entry of the word pass; any other such token produces no entry.
C14_UnmatchedLetterlessDropped ==
    LocalReturned =>
        \A t \in Range(local_words(call.arg)) :
            ~HasLetter(t) =>
                IF in_vocabulary(SIGN_VOCABULARY, t) \/ IsSynonym(t)
                THEN /\ Cardinality(ResultsFrom(t)) = 1
                     /\ \A i \in ResultsFrom(t) : call.ret[i].category # "fingerspelled"
                ELSE ResultsFrom(t) = {}

\* C14 witness: of two tokens without letters the digit that is a synonym
\* is answered with its entry and the apostrophe with nothing.
C14_Witness ==
    /\ LocalReturned
    /\ call.arg = <<"'", " ", "1">>
    /\ Len(call.ret) = 1
    /\ call.ret[1].matched_from = <<"1">>
    /\ call.ret[1].word = <<"b", "a">>

(***************************************************************************)
(* Claims about the handler, checked under Spec                            *)
(***************************************************************************)
\* a request to POST /api/match has been handled and its response not yet
\* sent
Handled == request.kind \in {"not_json", "malformed_json", "non_object", "object"}

\* the body is a JSON object whose text is a string with a character that
\* is no whitespace
ValidRequest ==
    /\ request.kind = "object"
    /\ request.text_type = "string"
    /\ \E k \in 1..Len(request.text) : ~isspace(request.text[k])

ForceSet == request.force_fingerspell = "true"

\* use_ai defaults to true
UseAiSet == request.use_ai # "false"

KeyConfigured == GEMINI_API_KEY # << >>

\* the remote matcher returns a result list for the reply the service gave
ReplyGivesList ==
    ~gemini_match_signs(SIGN_VOCABULARY, GEMINI_API_KEY, trace.service).is_none

\* a sign without the references media enrichment attaches
StripMedia(sign) == [f \in DOMAIN sign \ {"video_url", "letter_videos"} |-> sign[f]]

StripAllMedia(signs) == [k \in 1..Len(signs) |-> StripMedia(signs[k])]

\* C1: a valid request is answered by exactly one strategy: method is
\* "fingerspell" iff force_fingerspell is set; "gemini" iff it is not set,
\* use_ai is set, a credential is configured and the remote matcher
\* returned a result list; "local" in every other case.
C1_StrategySelection ==
    (Handled /\ ValidRequest) =>
        /\ response.status = 200
        /\ response.method \in {"fingerspell", "gemini", "local"}
        /\ (response.method = "fingerspell") <=> ForceSet
        /\ (response.method = "gemini") <=>
               (~ForceSet /\ UseAiSet /\ KeyConfigured /\ ReplyGivesList)
        /\ (response.method = "local") <=>
               (~ForceSet /\ ~(UseAiSet /\ KeyConfigured /\ ReplyGivesList))

\* C1 witness: a request that leaves use_ai to its default is answered by
\* the remote matcher.
C1_Witness ==
    /\ Handled /\ ValidRequest
    /\ request.use_ai = "absent"
    /\ response.method = "gemini"
    /\ Len(response.signs) = 2

C3_InvalidTextRejected ==
    (Handled /\ ~ValidRequest) =>
        /\ response.status = 400
        /\ {"signs", "method", "error"} \subseteq response.fields
        /\ response.signs = << >>
        /\ response.method = "none"
        /\ response.error # ""
        /\ trace.local_calls = 0 /\ trace.remote_calls = 0

\* C7: every sign returned to a client, by any of the three strategies, has
\* a confidence in [0,1].
C7_ConfidenceInRange ==
    Handled =>
        \A k \in 1..Len(response.signs) :
            response.signs[k].confidence >= 0 /\ response.signs[k].confidence <= 100

\* the first positions of the maximal runs of letters and digits of t
RunStarts(t) ==
    {i \in 1..Len(t) : isalnum(t[i]) /\ (i = 1 \/ ~isalnum(t[i - 1]))}

\* the last position of the run that starts at i
RunEnd(t, i) ==
    CHOOSE j \in i..Len(t) :
        /\ \A k \in i..j : isalnum(t[k])
        /\ (j = Len(t) \/ ~isalnum(t[j + 1]))

\* the runs that hold a letter
LetterRuns(t) == {i \in RunStarts(t) : \E k \in i..RunEnd(t, i) : isalpha(t[k])}

\* the k-th of the runs that hold a letter
NthLetterRun(t, k) ==
    CHOOSE i \in LetterRuns(t) : Cardinality({j \in LetterRuns(t) : j < i}) = k - 1

\* C10: with force_fingerspell set on a valid request the method is
\* "fingerspell" and the signs are one fingerspelled entry per token (the
\* text split on the characters that are no letters and no digits) that
\* holds a letter, in token order, with confidence 1.0 and the letters of
\* the token in order; no matcher is invoked.
C10_ForcedFingerspell ==
    (Handled /\ ValidRequest /\ ForceSet) =>
        LET t == request.text
            signs == StripAllMedia(response.signs)
        IN /\ response.method = "fingerspell"
           /\ trace.local_calls = 0 /\ trace.remote_calls = 0 /\ trace.api_calls = 0
           /\ Len(signs) = Cardinality(LetterRuns(t))
           /\ \A k \in 1..Len(signs) :
                  LET i == NthLetterRun(t, k)
                      token == SubSeq(t, i, RunEnd(t, i))
                  IN /\ signs[k].word = token
                     /\ signs[k].matched_from = token
                     /\ signs[k].category = "fingerspelled"
                     /\ signs[k].confidence = 100
                     /\ signs[k].letters = SelectSeq(token, isalpha)

\* C10 witness: an apostrophe parts the text in two tokens, each answered
\* with its own fingerspelled entry, the first in upper case.
C10_Witness ==
    /\ Handled /\ ForceSet
    /\ request.text = <<"A", "'", "b">>
    /\ response.method = "fingerspell"
    /\ Len(response.signs) = 2
    /\ response.signs[1].letters = <<"A">>
    /\ response.signs[2].letters = <<"b">>

\* C16: while one request is handled the external service is invoked at
\* most once, a failed call is not repeated, and it is not invoked at all
\* when no credential is configured, when use_ai is false or when
\* force_fingerspell is set.
C16_AtMostOneServiceCall ==
    Handled =>
        /\ trace.api_calls <= 1
        /\ trace.remote_calls <= 1
        /\ (~KeyConfigured \/ ~UseAiSet \/ ForceSet) => trace.api_calls = 0

\* C16 witness: the one call of the service raised and the request was
\* answered by the local matcher without a second call.
C16_Witness ==
    /\ Handled /\ ValidRequest
    /\ trace.service = ServiceRaises
    /\ trace.remote_failed
    /\ trace.api_calls = 1
    /\ response.method = "local"

\* C17: the vocabulary table is never mutated: in every state, after any
\* sequence of requests to any route, each entry holds the fields and
\* values it had at startup.
C17_VocabularyNeverMutated == SIGN_VOCABULARY = VocabularyTable

\* C17 witness: an entry of the table was returned with a video_url that
\* media enrichment attached, and the table is as it was.
C17_Witness ==
    /\ Handled
    /\ \E k \in 1..Len(response.signs) :
           /\ response.signs[k].category = "greetings"
           /\ "video_url" \in DOMAIN response.signs[k]
    /\ SIGN_VOCABULARY = VocabularyTable

\* the listing of the videos directory holds the .mp4 file of the letter,
\* names compared without regard to case
HasVideo(ch) ==
    \E fn \in VIDEOS_DIR.files :
        lower(fn.stem) = <<lower_char(ch)>> /\ fn.ext \in {".mp4", ".MP4"}

\* the signs of the matcher that answered, before media enrichment
MatchedSigns ==
    IF response.method = "fingerspell"
    THEN forced_signs(forced_words(strip(request.text)), 1)
    ELSE IF response.method = "gemini"
    THEN gemini_match_signs(SIGN_VOCABULARY, GEMINI_API_KEY, trace.service).signs
    ELSE local_match_signs(SIGN_VOCABULARY, strip(request.text))

\* C18: a fingerspelled entry carries letter_videos iff one of its letters
\* has a file; the list is then as long as letters, its i-th element the
\* reference of the file of the i-th letter, or null where there is none.
\* Enrichment adds, removes and reorders no entry.
C18_LetterVideos ==
    (Handled /\ ValidRequest) =>
        /\ StripAllMedia(response.signs) = MatchedSigns
        /\ \A k \in 1..Len(response.signs) :
               LET sign == response.signs[k]
               IN sign.category = "fingerspelled" =>
                      /\ ("letter_videos" \in DOMAIN sign) <=>
                             (\E i \in 1..Len(sign.letters) : HasVideo(sign.letters[i]))
                      /\ ("letter_videos" \in DOMAIN sign) =>
                             /\ Len(sign.letter_videos) = Len(sign.letters)
                             /\ \A i \in 1..Len(sign.letters) :
                                    IF HasVideo(sign.letters[i])
                                    THEN /\ ~sign.letter_videos[i].null
                                         /\ sign.letter_videos[i].filename \in VIDEOS_DIR.files
                                         /\ sign.letter_videos[i].filename.ext \in {".mp4", ".MP4"}
                                         /\ lower(sign.letter_videos[i].filename.stem) =
                                                <<lower_char(sign.letters[i])>>
                                    ELSE sign.letter_videos[i] = NoUrl

\* C18 witness: of the two letters of a fingerspelled word the first has a
\* file and the second has none; letter_videos holds a reference and null.
C18_Witness ==
    /\ Handled /\ ValidRequest
    /\ Len(response.signs) = 1
    /\ response.signs[1].category = "fingerspelled"
    /\ response.signs[1].letters = <<"b", "c">>
    /\ "letter_videos" \in DOMAIN response.signs[1]
    /\ ~response.signs[1].letter_videos[1].null
    /\ response.signs[1].letter_videos[2] = NoUrl

(***************************************************************************)
(* Claims about the remote matcher, checked under SpecRemote               *)
(***************************************************************************)
RemoteReturned == call.fn = "gemini_match_signs" /\ call.state = "returned"

\* the behaviours of the service the claim C11 lists
ServiceRaised == call.arg.raises

RepliedJson == IF call.arg.raises THEN JInvalid ELSE json_loads(strip_code_fence(call.arg.lines))

RepliedNonJson == ~call.arg.raises /\ RepliedJson.t = "invalid"

RepliedNonArray == ~call.arg.raises /\ RepliedJson.t \in {"scalar", "iterable_non_array"}

RepliedNonObjects ==
    /\ ~call.arg.raises
    /\ \E k \in 1..Len(RepliedJson.items) : RepliedJson.items[k].t # "object"

RepliedNonStringWord ==
    /\ ~call.arg.raises
    /\ \E k \in 1..Len(RepliedJson.items) :
           /\ RepliedJson.items[k].t = "object"
           /\ RepliedJson.items[k].word.t \notin {"absent", "str"}

\* C11: whatever the external service does, gemini_match_signs returns and
\* raises nothing; what it returns is either a result list with no error or
\* null with a reason, never both and never neither.
C11_RemoteNeverRaises ==
    RemoteReturned =>
        /\ ~call.ret.raised
        /\ call.ret.is_none <=> (call.ret.error # "")
        /\ call.ret.is_none => call.ret.signs = << >>

\* C11 witness: with a credential, the service answered with an array that
\* holds, after an object naming a key, something that is no object, and
\* the matcher returned null with a reason.
C11_Witness ==
    /\ RemoteReturned
    /\ KeyConfigured
    /\ RepliedNonObjects
    /\ Len(RepliedJson.items) = 2
    /\ RepliedJson.items[1] = JObject(JStr(<<"A">>), JAbsent, JAbsent)
    /\ call.ret.is_none
    /\ call.ret.error = "Gemini API error"

\* the element names a vocabulary key, in any case
NamesKey(match) ==
    match.t = "object" /\ match.word.t = "str" /\
    in_vocabulary(SIGN_VOCABULARY, lower(match.word.s))

\* C15: when the remote matcher succeeds its list holds one result per
\* returned object whose lowercased word is a vocabulary key, in the order
\* of the reply, with the fields of that entry, the returned confidence
\* (0.8 when absent) and the returned matched_from (the word when absent);
\* every word of the list is a vocabulary key.
C15_RemoteSuccessList ==
    (RemoteReturned /\ ~call.ret.raised /\ ~call.ret.is_none) =>
        LET known == SelectSeq(RepliedJson.items, NamesKey)
            signs == call.ret.signs
        IN /\ Len(signs) = Len(known)
           /\ \A k \in 1..Len(signs) :
                  LET word == lower(known[k].word.s)
                      entry == vocabulary_get(SIGN_VOCABULARY, word)
                  IN /\ DOMAIN dict_items(signs[k]) =
                            DOMAIN entry \cup {"confidence", "matched_from"}
                     /\ \A f \in DOMAIN entry : signs[k][f] = entry[f]
                     /\ signs[k].word = word
                     /\ signs[k].confidence =
                            IF known[k].confidence.t = "absent" THEN 80
                            ELSE known[k].confidence.n
                     /\ signs[k].matched_from =
                            IF known[k].matched_from.t = "absent" THEN word
                            ELSE known[k].matched_from.s

\* C15 witness: of two returned objects the first names a key in upper
\* case, without confidence and matched_from, the second an unknown word;
\* the list holds the entry of the first with the defaults.
C15_Witness ==
    /\ RemoteReturned
    /\ ~call.ret.is_none
    /\ RepliedJson.items = <<JObject(JStr(<<"A">>), JAbsent, JAbsent),
                             JObject(JStr(<<"c", "c">>), JNum(95), JAbsent)>>
    /\ Len(call.ret.signs) = 1
    /\ call.ret.signs[1].word = <<"a">>
    /\ call.ret.signs[1].confidence = 80
    /\ call.ret.signs[1].matched_from = <<"a">>

====
